---- MODULE Spec2Model ----
(***************************************************************************)
(* Model of self-modifying/2_genetic_programming.py: the evolutionary loop *)
(* of main(), the fitness function evaluate_fitness() and the mutation     *)
(* adapter llm_mutate().                                                   *)
(*                                                                         *)
(* Text is a sequence of tokens.  Standard output of a candidate is a      *)
(* sequence of one-character strings; source text and the text written by  *)
(* the "claude" command are sequences of lines, newlines and fences.       *)
(***************************************************************************)
EXTENDS Integers, Sequences, FiniteSets, TLC

VARIABLES
    population_size,  \* main: population_size (line 90)
    generations,      \* main: generations (line 91)
    FITNESS_TESTS,    \* module global FITNESS_TESTS (line 21)
    population,       \* main: population, a sequence of source texts
    gen,              \* main: loop variable of "for gen in range(generations)"
    pc,               \* position of main
    fitness_scores,   \* main: fitness_scores, sorted (code, fitness) pairs
    new_population,   \* main: new_population
    idx,              \* position of the loop over fitness_scores[1:]
    result,           \* the code main prints as its final result
    evaluated,        \* indexes of population passed to evaluate_fitness in this generation
    sandbox_runs,     \* subprocess.run calls made by evaluate_fitness in this generation
    oracle_calls      \* (code, fitness) arguments of the llm_mutate calls of this generation

vars == <<population_size, generations, FITNESS_TESTS, population, gen, pc,
          fitness_scores, new_population, idx, result, evaluated,
          sandbox_runs, oracle_calls>>

(***************************************************************************)
(* Bounds and the literals of main().                                      *)
(***************************************************************************)
\* largest value of "generations" a run is started with (main uses 5)
MaxGenerations == 5

\* population_size = 3
PopulationSize == 3

(***************************************************************************)
(* Text helpers.                                                           *)
(***************************************************************************)
Whitespace == {" ", "\n", "\t"}

RECURSIVE LStrip(_)
LStrip(s) ==
    IF s = <<>> THEN <<>>
    ELSE IF Head(s) \in Whitespace THEN LStrip(Tail(s)) ELSE s

RECURSIVE RStrip(_)
RStrip(s) ==
    IF s = <<>> THEN <<>>
    ELSE IF s[Len(s)] \in Whitespace THEN RStrip(SubSeq(s, 1, Len(s) - 1)) ELSE s

\* a strip that forgets the trailing side
StripLeftOnly(s) == LStrip(s)

\* str.strip()
Strip(s) == RStrip(LStrip(s))

DigitChars == <<"0", "1", "2", "3", "4", "5", "6", "7", "8", "9">>

\* str(n) for n >= 0
RECURSIVE IntToStr(_)
IntToStr(n) ==
    IF n < 10 THEN <<DigitChars[n + 1]>>
    ELSE IntToStr(n \div 10) \o <<DigitChars[(n % 10) + 1]>>

Fizz == <<"F", "i", "z", "z">>
Buzz == <<"B", "u", "z", "z">>
FizzBuzz == <<"F", "i", "z", "z", "B", "u", "z", "z">>

\* the literal list FITNESS_TESTS
FizzBuzzTests ==
    << <<1, <<"1">> >>,
       <<3, Fizz>>,
       <<5, Buzz>>,
       <<15, FizzBuzz>>,
       <<7, <<"7">> >>,
       <<9, Fizz>>,
       <<10, Buzz>>,
       <<30, FizzBuzz>> >>

(***************************************************************************)
(* Candidate programs.  A source text is a sequence of statement lines     *)
(* separated by "\n" tokens.                                               *)
(***************************************************************************)
PrintEcho == "print(sys.argv[1])"
PrintFizz == "print('Fizz')"
PrintFizzBuzz ==
    "print('FizzBuzz' if n%15==0 else 'Fizz' if n%3==0 else 'Buzz' if n%5==0 else str(n))"
PrintNoBuzz == "print('FizzBuzz' if n%15==0 else 'Fizz' if n%3==0 else str(n))"

\* the three seeds of main()
EchoSrc == <<"import sys", "\n", PrintEcho>>
FizzSrc == <<"import sys", "\n", PrintFizz>>
FizzBuzzSrc == <<"import sys", "\n", "n=int(sys.argv[1])", "\n", PrintFizzBuzz>>

\* further programs a mutation can produce
NoBuzzSrc == <<"import sys", "\n", "n=int(sys.argv[1])", "\n", PrintNoBuzz>>
ExitSrc == FizzBuzzSrc \o <<"\n", "sys.exit(1)">>
FaultSrc == FizzBuzzSrc \o <<"\n", "raise ValueError(n)">>
HangSrc == FizzBuzzSrc \o <<"\n", "while True: pass">>
ProseSrc == <<"Here is the improved solution.">>
EmptySrc == <<>>

Statements ==
    {"import sys", "n=int(sys.argv[1])", PrintEcho, PrintFizz, PrintFizzBuzz,
     PrintNoBuzz, "sys.exit(1)", "raise ValueError(n)", "while True: pass"}

\* what print(<expression>) writes for argument n
Printed(stmt, n) ==
    CASE stmt = PrintEcho -> IntToStr(n)
      [] stmt = PrintFizz -> Fizz
      [] stmt = PrintFizzBuzz ->
            IF n % 15 = 0 THEN FizzBuzz
            ELSE IF n % 3 = 0 THEN Fizz
            ELSE IF n % 5 = 0 THEN Buzz
            ELSE IntToStr(n)
      [] stmt = PrintNoBuzz ->
            IF n % 15 = 0 THEN FizzBuzz
            ELSE IF n % 3 = 0 THEN Fizz
            ELSE IntToStr(n)

Lines(code) == SelectSeq(code, LAMBDA t : t # "\n")

\* the interpreter running the statements of a candidate in order
RECURSIVE ExecFrom(_, _, _)
ExecFrom(lines, n, out) ==
    IF lines = <<>> THEN [kind |-> "completed", returncode |-> 0, stdout |-> out]
    ELSE LET stmt == Head(lines) IN
         CASE stmt = "sys.exit(1)" ->
                [kind |-> "completed", returncode |-> 1, stdout |-> out]
           [] stmt = "raise ValueError(n)" ->
                [kind |-> "completed", returncode |-> 1, stdout |-> out]
           [] stmt = "while True: pass" ->
                [kind |-> "TimeoutExpired", returncode |-> 0 - 9, stdout |-> out]
           [] stmt \in {"import sys", "n=int(sys.argv[1])"} ->
                ExecFrom(Tail(lines), n, out)
           [] OTHER ->
                ExecFrom(Tail(lines), n, out \o Printed(stmt, n) \o <<"\n">>)

\* subprocess.run([sys.executable, candidate.py, str(input_val)],
\*                capture_output=True, text=True, timeout=1)
\* a text that is no Python program ends with a SyntaxError before it prints
subprocess_run(code, input_val) ==
    IF \E i \in 1..Len(Lines(code)) : Lines(code)[i] \notin Statements
    THEN [kind |-> "completed", returncode |-> 1, stdout |-> <<>>]
    ELSE ExecFrom(Lines(code), input_val, <<>>)

(***************************************************************************)
(* evaluate_fitness                                                        *)
(***************************************************************************)
\* one iteration of "for input_val, expected in FITNESS_TESTS": 1 when the
\* iteration executes "failures += 1"
TestFails(code, test) ==
    LET run == subprocess_run(code, test[1]) IN
    IF run.kind # "completed" THEN 1            \* except branch
    ELSE IF Strip(run.stdout) # test[2] THEN 1  \* actual != expected
    ELSE 0

RECURSIVE CountFailures(_, _)
CountFailures(code, ts) ==
    IF ts = <<>> THEN 0
    ELSE TestFails(code, Head(ts)) + CountFailures(code, Tail(ts))

\* failures / len(FITNESS_TESTS), kept as an exact fraction
evaluate_fitness(code) ==
    [num |-> CountFailures(code, FITNESS_TESTS), den |-> Len(FITNESS_TESTS)]

\* a / b < c / d
FitnessLess(a, b) == a.num * b.den < b.num * a.den
FitnessLeq(a, b) == a.num * b.den <= b.num * a.den

(***************************************************************************)
(* fitness_scores.sort(key=lambda x: x[1]): a stable sort, best first      *)
(***************************************************************************)
RECURSIVE InsertByFitness(_, _)
InsertByFitness(sorted, x) ==
    IF sorted = <<>> THEN <<x>>
    ELSE IF FitnessLess(x.fitness, Head(sorted).fitness)
         THEN <<x>> \o sorted
         ELSE <<Head(sorted)>> \o InsertByFitness(Tail(sorted), x)

RECURSIVE SortFrom(_, _)
SortFrom(sorted, rest) ==
    IF rest = <<>> THEN sorted
    ELSE SortFrom(InsertByFitness(sorted, Head(rest)), Tail(rest))

\* the ranking left in population order
NoSort(scores) == scores

SortByFitness(scores) == SortFrom(<<>>, scores)

(***************************************************************************)
(* llm_mutate: the text written by the "claude" command is cut down to the *)
(* code between markdown fences, then stripped.                            *)
(***************************************************************************)
\* the markdown fences: three backquotes, with and without the word python
PyFence == "~~~python"
Fence == "~~~"

\* the three backquotes occur in both fence tokens
HasFence(tok) == tok \in {Fence, PyFence}

FirstIndex(s, tok) == CHOOSE i \in 1..Len(s) : s[i] = tok /\ \A j \in 1..(i - 1) : s[j] # tok

\* output.split(tok)[1].split(Fence)[0]: the text after the first tok up to
\* the next occurrence of three backquotes
RECURSIVE UpToFence(_)
UpToFence(s) ==
    IF s = <<>> THEN <<>>
    ELSE IF HasFence(Head(s)) THEN <<>>
    ELSE <<Head(s)>> \o UpToFence(Tail(s))

Between(s, tok) == UpToFence(SubSeq(s, FirstIndex(s, tok) + 1, Len(s)))

\* lines 81-87, applied to result.stdout
ExtractCode(output) ==
    Strip(IF \E i \in 1..Len(output) : output[i] = PyFence THEN Between(output, PyFence)
          ELSE IF \E i \in 1..Len(output) : output[i] = Fence THEN Between(output, Fence)
          ELSE output)

\* what the external command may write to its standard output
OracleOutputs ==
    { <<>>,
      FizzBuzzSrc \o <<"\n">>,
      <<PyFence, "\n">> \o NoBuzzSrc \o <<"\n", Fence, "\n">>,
      <<ProseSrc[1], "\n", Fence, "\n">> \o ExitSrc \o <<"\n", Fence>>,
      <<PyFence, "\n">> \o FaultSrc,
      HangSrc,
      ProseSrc,
      <<PyFence>> }

\* seed populations are drawn from these programs
SeedSources == {EchoSrc, FizzSrc, FizzBuzzSrc, NoBuzzSrc, ExitSrc, HangSrc}

NoResult == <<"<nothing printed>">>

(***************************************************************************)
(* main()                                                                  *)
(***************************************************************************)
best_code == fitness_scores[1].code
best_fitness == fitness_scores[1].fitness

\* fitness == 0 on a float failures / len
IsZero(f) == f.num = 0

Scores(pop) == [i \in 1..Len(pop) |-> [code |-> pop[i], fitness |-> evaluate_fitness(pop[i])]]

\* a run of main() with the literals of lines 90-98 as its parameters:
\* population_size 3, three seeds, the eight FizzBuzz tests
Init ==
    /\ population_size = PopulationSize
    /\ generations \in 1..MaxGenerations
    /\ FITNESS_TESTS = FizzBuzzTests
    /\ population \in [1..PopulationSize -> SeedSources]
    /\ gen = 0
    /\ pc = "loop"
    /\ fitness_scores = <<>>
    /\ new_population = <<>>
    /\ idx = 0
    /\ result = NoResult
    /\ evaluated = <<>>
    /\ sandbox_runs = 0
    /\ oracle_calls = <<>>

\* lines 102-114: the head of an iteration, the evaluation and the ranking.
\* fitness_scores[0] of an empty list raises IndexError; failures / 0 raises
\* ZeroDivisionError in the first call of evaluate_fitness.
Evaluate ==
    /\ pc = "loop"
    /\ gen < generations
    /\ oracle_calls' = <<>>
    /\ IF population = <<>>
       THEN /\ pc' = "ABORTED"
            /\ evaluated' = <<>>
            /\ sandbox_runs' = 0
            /\ fitness_scores' = <<>>
       ELSE IF FITNESS_TESTS = <<>>
       THEN /\ pc' = "ABORTED"
            /\ evaluated' = <<1>>
            /\ sandbox_runs' = 0
            /\ UNCHANGED fitness_scores
       ELSE /\ pc' = "ranked"
            /\ evaluated' = [i \in 1..Len(population) |-> i]
            /\ sandbox_runs' = Len(population) * Len(FITNESS_TESTS)
            /\ fitness_scores' = SortByFitness(Scores(population))
    /\ UNCHANGED <<population_size, generations, FITNESS_TESTS, population, gen,
                   new_population, idx, result>>

\* lines 116-120
Converged ==
    /\ pc = "ranked"
    /\ IsZero(best_fitness)
    /\ pc' = "CONVERGED"
    /\ result' = best_code
    /\ UNCHANGED <<population_size, generations, FITNESS_TESTS, population, gen,
                   fitness_scores, new_population, idx, evaluated, sandbox_runs,
                   oracle_calls>>

\* the worst candidate kept in place of the best
ElitismWorst == <<fitness_scores[Len(fitness_scores)].code>>

\* no candidate kept
NoElitism == <<>>

\* new_population = [best_code]
Elitism == <<best_code>>

\* lines 122-125
Select ==
    /\ pc = "ranked"
    /\ ~IsZero(best_fitness)
    /\ new_population' = Elitism
    /\ idx' = 2
    /\ pc' = "mutate"
    /\ UNCHANGED <<population_size, generations, FITNESS_TESTS, population, gen,
                   fitness_scores, result, evaluated, sandbox_runs, oracle_calls>>

InMutateLoop == pc = "mutate" /\ idx <= Len(fitness_scores)

\* the candidate appended for what the command printed
llm_mutate(output) == ExtractCode(output)

\* lines 128-131, the command returns: mutated = llm_mutate(code, fitness)
OracleReturns ==
    /\ InMutateLoop
    /\ Len(new_population) < population_size
    /\ \E output \in OracleOutputs :
          new_population' = Append(new_population, llm_mutate(output))
    /\ oracle_calls' = Append(oracle_calls,
                              <<fitness_scores[idx].code, fitness_scores[idx].fitness>>)
    /\ idx' = idx + 1
    /\ UNCHANGED <<population_size, generations, FITNESS_TESTS, population, gen, pc,
                   fitness_scores, result, evaluated, sandbox_runs>>

\* line 74: subprocess.run raises (no "claude" executable, ...); nothing
\* catches it and main ends with a traceback
OracleRaises ==
    /\ InMutateLoop
    /\ Len(new_population) < population_size
    /\ oracle_calls' = Append(oracle_calls,
                              <<fitness_scores[idx].code, fitness_scores[idx].fitness>>)
    /\ pc' = "ABORTED"
    /\ UNCHANGED <<population_size, generations, FITNESS_TESTS, population, gen,
                   fitness_scores, new_population, idx, result, evaluated,
                   sandbox_runs>>

\* line 74: subprocess.run has no timeout; a command that never exits
\* blocks main for ever
OracleNeverReturns ==
    /\ InMutateLoop
    /\ Len(new_population) < population_size
    /\ oracle_calls' = Append(oracle_calls,
                              <<fitness_scores[idx].code, fitness_scores[idx].fitness>>)
    /\ pc' = "BLOCKED"
    /\ UNCHANGED <<population_size, generations, FITNESS_TESTS, population, gen,
                   fitness_scores, new_population, idx, result, evaluated,
                   sandbox_runs>>

\* line 129 false: the candidate is dropped without a call
SkipSlot ==
    /\ InMutateLoop
    /\ ~(Len(new_population) < population_size)
    /\ idx' = idx + 1
    /\ UNCHANGED <<population_size, generations, FITNESS_TESTS, population, gen, pc,
                   fitness_scores, new_population, result, evaluated, sandbox_runs,
                   oracle_calls>>

\* line 133 and the step of the for loop
NextGeneration ==
    /\ pc = "mutate"
    /\ idx > Len(fitness_scores)
    /\ population' = new_population
    /\ gen' = gen + 1
    /\ pc' = "loop"
    /\ UNCHANGED <<population_size, generations, FITNESS_TESTS, fitness_scores,
                   new_population, idx, result, evaluated, sandbox_runs, oracle_calls>>

\* lines 136-137: the loop is exhausted; population[0] of an empty list
\* raises IndexError
Exhausted ==
    /\ pc = "loop"
    /\ gen = generations
    /\ IF population = <<>>
       THEN pc' = "ABORTED" /\ UNCHANGED result
       ELSE pc' = "EXHAUSTED" /\ result' = population[1]
    /\ UNCHANGED <<population_size, generations, FITNESS_TESTS, population, gen,
                   fitness_scores, new_population, idx, evaluated, sandbox_runs,
                   oracle_calls>>

Next ==
    \/ Evaluate
    \/ Converged
    \/ Select
    \/ OracleReturns
    \/ OracleRaises
    \/ OracleNeverReturns
    \/ NextGeneration
    \/ Exhausted

Spec == Init /\ [][Next]_vars

(***************************************************************************)
(* Runs started with arbitrary parameters, the invalid ones included: a    *)
(* population size from 0, an empty or a full seed population, an empty    *)
(* or the full test list.                                                  *)
(***************************************************************************)
CfgSeedSources == {EchoSrc, FizzSrc, FizzBuzzSrc}

CfgInit ==
    /\ population_size \in 0..PopulationSize
    /\ generations \in 1..MaxGenerations
    /\ FITNESS_TESTS \in {<<>>, FizzBuzzTests}
    /\ population \in {<<>>} \cup [1..PopulationSize -> CfgSeedSources]
    /\ gen = 0
    /\ pc = "loop"
    /\ fitness_scores = <<>>
    /\ new_population = <<>>
    /\ idx = 0
    /\ result = NoResult
    /\ evaluated = <<>>
    /\ sandbox_runs = 0
    /\ oracle_calls = <<>>

CfgNext ==
    \/ Next
    \/ SkipSlot

CfgSpec == CfgInit /\ [][CfgNext]_vars

(***************************************************************************)
(* Properties                                                              *)
(***************************************************************************)
Terminal == {"CONVERGED", "EXHAUSTED"}

Indexes(s) == 1..Len(s)

\* the lowest fitness of a non-empty list of scores, whatever its order
LowestFitness(scores) ==
    CHOOSE f \in {scores[i].fitness : i \in Indexes(scores)} :
        \A j \in Indexes(scores) : FitnessLeq(f, scores[j].fitness)

\* C1: elitism.  Whenever a generation after the first is evaluated, the
\* lowest fitness of the new ranking is at most the lowest fitness of the
\* previous ranking, and the first candidate of the population evaluated is
\* ranked[0] of the previous generation.
C1_Elitism ==
    [][(pc = "loop" /\ pc' = "ranked" /\ gen >= 1) =>
          /\ population[1] = fitness_scores[1].code
          /\ FitnessLeq(LowestFitness(fitness_scores'), LowestFitness(fitness_scores))]_vars

\* a later generation in which a mutated candidate beats the elite it was
\* evaluated with
C1_Witness ==
    /\ pc = "ranked"
    /\ gen >= 1
    /\ fitness_scores[1].code # population[1]
    /\ ~IsZero(fitness_scores[1].fitness)

\* main is at a position from which it takes a further step
CanStep ==
    \/ pc = "loop" /\ gen <= generations
    \/ pc = "ranked"
    \/ pc = "mutate" /\ (idx > Len(fitness_scores) \/ Len(new_population) < population_size)

\* C2: termination.  A run is never stopped short of a result: it is in a
\* terminal state or main takes a further step, whatever the mutation
\* command does, and it never evaluates more than "generations"
\* generations.
C2_Termination ==
    /\ (pc \in Terminal \/ CanStep)
    /\ gen <= generations
    /\ (pc = "ranked" => gen < generations)

\* C3: driver outcome.  A ranking whose best fitness is 0 is followed by
\* CONVERGED and by nothing else; CONVERGED returns ranked[0] of that
\* ranking; EXHAUSTED is entered only after "generations" generations,
\* none of them with a best fitness of 0, and returns ranked[0] of the last
\* ranking, a candidate of lowest fitness; a result exists in terminal
\* states only, and a terminal state is never left.
C3_Outcome ==
    /\ (pc = "CONVERGED" =>
          /\ IsZero(fitness_scores[1].fitness)
          /\ result = fitness_scores[1].code)
    /\ (pc = "EXHAUSTED" =>
          /\ gen = generations
          /\ ~IsZero(LowestFitness(fitness_scores))
          /\ result = fitness_scores[1].code
          /\ fitness_scores[1].fitness = LowestFitness(fitness_scores)
          /\ \E i \in Indexes(population) : population[i] = result)
    /\ (pc = "ranked" => fitness_scores[1].fitness = LowestFitness(fitness_scores))
    /\ (pc = "mutate" => ~IsZero(LowestFitness(fitness_scores)))
    /\ (result # NoResult <=> pc \in Terminal)

C3_DriverOutcome ==
    [][/\ C3_Outcome'
       /\ (pc = "ranked" /\ IsZero(LowestFitness(fitness_scores)) => pc' = "CONVERGED")
       /\ (pc' = "CONVERGED" => pc = "ranked" /\ IsZero(LowestFitness(fitness_scores)))
       /\ (pc \in Terminal => pc' = pc /\ result' = result)]_vars

\* a run that exhausts two generations or more and returns a candidate the
\* mutation produced
C3_Witness ==
    /\ pc = "EXHAUSTED"
    /\ generations >= 2
    /\ result = NoBuzzSrc
    /\ fitness_scores[Len(fitness_scores)].fitness # fitness_scores[1].fitness

\* t is s without its leading and trailing whitespace
IsTrimOf(t, s) ==
    \E a \in 1..(Len(s) + 1) : \E b \in 0..Len(s) :
        /\ t = SubSeq(s, a, b)
        /\ \A i \in Indexes(s) : (i < a \/ i > b) => s[i] \in Whitespace
        /\ t # <<>> => t[1] \notin Whitespace /\ t[Len(t)] \notin Whitespace

\* the run of code on the test returned and its trimmed output is the
\* expected output
Passes(code, test) ==
    LET run == subprocess_run(code, test[1]) IN
    run.kind = "completed" /\ IsTrimOf(test[2], run.stdout)

FailingTests(code) == {t \in Indexes(FITNESS_TESTS) : ~Passes(code, FITNESS_TESTS[t])}

\* C4: every fitness in a ranking is failures / |T|, failures being the
\* number of test vectors whose run raised or whose trimmed output differs
\* from the expected output; it lies in [0, 1] and is 0 exactly when every
\* vector passes.
C4_Fitness ==
    pc = "ranked" =>
        \A i \in Indexes(fitness_scores) :
            LET code == fitness_scores[i].code
                f == fitness_scores[i].fitness
            IN  /\ f.den = Len(FITNESS_TESTS)
                /\ f.den > 0
                /\ f.num = Cardinality(FailingTests(code))
                /\ 0 <= f.num /\ f.num <= f.den
                /\ (f.num = 0 <=>
                      \A t \in Indexes(FITNESS_TESTS) : Passes(code, FITNESS_TESTS[t]))

\* a ranking with a perfect candidate, a partly failing one and one whose
\* runs all time out
C4_Witness ==
    /\ pc = "ranked"
    /\ fitness_scores[1].fitness.num = 0
    /\ \E i \in Indexes(fitness_scores) :
          0 < fitness_scores[i].fitness.num
          /\ fitness_scores[i].fitness.num < fitness_scores[i].fitness.den
    /\ \E i \in Indexes(fitness_scores) : fitness_scores[i].code = HangSrc

\* a vector is an execution error when the process exits non-zero, dies of
\* an uncaught fault or exceeds the timeout
ExecutionError(code, test) ==
    LET run == subprocess_run(code, test[1]) IN
    run.kind # "completed" \/ run.returncode # 0

\* C5: each vector on which the candidate exits non-zero, faults or times
\* out counts as one failing test, whatever it printed, and the evaluation
\* goes on to a full ranking.
C5_ErrorsScored ==
    pc = "ranked" =>
        \A i \in Indexes(fitness_scores) :
            /\ fitness_scores[i].fitness.num >=
                  Cardinality({t \in Indexes(FITNESS_TESTS) :
                                  ExecutionError(fitness_scores[i].code, FITNESS_TESTS[t])})
            /\ Len(fitness_scores) = Len(population)

\* C6: a slot the mutation filled with an empty text held an empty text
\* before (the original is substituted for an empty result), and a failing
\* mutation call does not end the run.
C6_Substitution ==
    /\ pc = "mutate" =>
          \A k \in 2..Len(new_population) :
              new_population[k] = <<>> => fitness_scores[k].code = <<>>
    /\ pc # "ABORTED"

\* C7: the population holds population_size candidates in every state, and
\* population_size keeps the value the run started with.
C7_PopulationSize ==
    /\ Len(population) = population_size
    /\ population_size = PopulationSize
    /\ (pc \in {"ranked", "mutate"} \cup Terminal => Len(fitness_scores) = population_size)
    /\ (pc = "mutate" /\ idx > Len(fitness_scores) => Len(new_population) = population_size)

\* a population made by a reproduction in which the mutation returned
\* nothing for one slot
C7_Witness ==
    /\ pc = "loop"
    /\ gen >= 1
    /\ \E i \in Indexes(population) : population[i] = <<>>

InvalidParameters ==
    \/ population_size = 0
    \/ FITNESS_TESTS = <<>>
    \/ population = <<>>

\* C8: a run started with a population size of 0, an empty population or
\* an empty test list executes no candidate, computes no fitness and calls
\* no mutation.
C8_FailFast ==
    InvalidParameters =>
        /\ sandbox_runs = 0
        /\ fitness_scores = <<>>
        /\ oracle_calls = <<>>
        /\ pc \in {"loop", "ABORTED"}

\* C9: in the first generation every seed is evaluated; in a later one the
\* elite carried over (population[0]) is not evaluated again, only the
\* population_size - 1 new candidates are.
C9_EvaluatedOnce ==
    pc = "ranked" =>
        /\ gen = 0 => evaluated = [i \in Indexes(population) |-> i]
        /\ gen >= 1 => evaluated = [i \in 1..(Len(population) - 1) |-> i + 1]

\* C10: no mutation call is made in a generation that ends in CONVERGED nor
\* in the last generation; every other generation makes one call for each
\* ranked candidate but the first, with its code and fitness.
C10_OracleCalls ==
    /\ (pc \in Terminal => oracle_calls = <<>>)
    /\ (pc = "mutate" /\ oracle_calls # <<>> => gen + 1 < generations)
    /\ (pc = "mutate" /\ idx > Len(fitness_scores) =>
          oracle_calls = [k \in 1..(population_size - 1) |->
                             <<fitness_scores[k + 1].code, fitness_scores[k + 1].fitness>>])

====
